---- MODULE Spec2Model ----
(***************************************************************************)
(* A model of ConfigKeywordParser (wip/genconfig/src/config_keyword_parser *)
(* .py): the keyword parser that resolves a build name to a qualified      *)
(* environment name for one system of a supported-environments file.       *)
(*                                                                         *)
(* Strings are sequences of characters (one-character TLA+ strings); the   *)
(* words "cuda", "serial" and "openmp" are single symbols.  The Python     *)
(* value None and an absent attribute are the empty tuple None, a present  *)
(* value x is Some(x) == <<x>>.                                            *)
(***************************************************************************)
EXTENDS Integers, Sequences, FiniteSets

(***************************************************************************)
(* Bounds of the model.                                                    *)
(***************************************************************************)
\* the most entries (keys) a generated section holds
MaxEntries == 2
\* the most alias lines a generated section holds, over all its entries
MaxAliasLines == 2
\* the reads of the configuration file by one instance are counted up to
MaxReads == 3

(***************************************************************************)
(* Strings.                                                                *)
(***************************************************************************)
None == <<>>
Some(x) == <<x>>

NL == "\n"
Whitespace == {" ", NL}
Digits == {"1", "2"}

\* Python's ord() on the characters of the model (the words by first letter)
Ord(c) ==
    CASE c = NL -> 10
      [] c = " " -> 32
      [] c = "#" -> 35
      [] c = "-" -> 45
      [] c = "1" -> 49
      [] c = "2" -> 50
      [] c = "_" -> 95
      [] c = "a" -> 97
      [] c = "b" -> 98
      [] c = "cuda" -> 99
      [] c = "openmp" -> 111
      [] c = "s1" -> 115
      [] c = "s2" -> 115
      [] c = "serial" -> 115

\* Python's `s in t` on strings
IsSubstr(s, t) ==
    \E i \in 0..(Len(t) - Len(s)) : SubSeq(t, i + 1, i + Len(s)) = s

\* Python's `x in lst` on lists
InList(x, lst) == \E i \in DOMAIN lst : lst[i] = x

\* Python's str.replace("_", "-")
ReplaceUnderscores(s) == [i \in DOMAIN s |-> IF s[i] = "_" THEN "-" ELSE s[i]]

\* Python's str.strip()
RECURSIVE LStrip(_)
LStrip(s) ==
    IF s # <<>> /\ Head(s) \in Whitespace THEN LStrip(Tail(s)) ELSE s

RECURSIVE RStrip(_)
RStrip(s) ==
    IF s # <<>> /\ s[Len(s)] \in Whitespace
    THEN RStrip(SubSeq(s, 1, Len(s) - 1))
    ELSE s

Strip(s) == LStrip(RStrip(s))

\* Python's s < t on strings: lexicographic by code point
RECURSIVE StrLess(_, _)
StrLess(s, t) ==
    IF t = <<>> THEN FALSE
    ELSE IF s = <<>> THEN TRUE
    ELSE IF Head(s) = Head(t) THEN StrLess(Tail(s), Tail(t))
    ELSE Ord(Head(s)) < Ord(Head(t))

\* (the mutant leaves the list in the order it has)
Unsorted(lst) == lst

\* Python's sorted(lst) on a list of strings (stable insertion)
RECURSIVE InsertSorted(_, _)
InsertSorted(x, lst) ==
    IF lst = <<>> THEN <<x>>
    ELSE IF StrLess(x, Head(lst)) THEN <<x>> \o lst
    ELSE <<Head(lst)>> \o InsertSorted(x, Tail(lst))

RECURSIVE Sorted(_)
Sorted(lst) ==
    IF lst = <<>> THEN <<>>
    ELSE InsertSorted(lst[Len(lst)], Sorted(SubSeq(lst, 1, Len(lst) - 1)))

MaxOf(S) == CHOOSE m \in S : \A n \in S : n <= m

RECURSIVE ByLenFrom(_, _)
ByLenFrom(lst, l) ==
    IF l < 0 THEN <<>>
    ELSE SelectSeq(lst, LAMBDA x : Len(x) = l) \o ByLenFrom(lst, l - 1)

\* sorted(lst, key=len, reverse=True), ascending where a mutant drops reverse
RECURSIVE ByLenUpTo(_, _, _)
ByLenUpTo(lst, l, top) ==
    IF l > top THEN <<>>
    ELSE SelectSeq(lst, LAMBDA x : Len(x) = l) \o ByLenUpTo(lst, l + 1, top)

SortedByLenAscending(lst) ==
    IF lst = <<>> THEN <<>>
    ELSE ByLenUpTo(lst, 0, MaxOf({Len(lst[i]) : i \in DOMAIN lst}))

Reversed(lst) == [i \in DOMAIN lst |-> lst[Len(lst) + 1 - i]]

\* a descending sort that is not stable: equal lengths come out reversed
SortedByLenUnstable(lst) == Reversed(SortedByLenAscending(lst))

\* Python's sorted(lst, key=len, reverse=True): longest first, and stable
\* (elements of equal length keep their original order)
SortedByLenDescending(lst) ==
    IF lst = <<>> THEN <<>>
    ELSE ByLenFrom(lst, MaxOf({Len(lst[i]) : i \in DOMAIN lst}))

\* the concatenation of a list of lists
RECURSIVE Flatten(_)
Flatten(lsts) ==
    IF lsts = <<>> THEN <<>> ELSE Head(lsts) \o Flatten(Tail(lsts))

\* list.count(x)
Count(x, lst) == Cardinality({i \in DOMAIN lst : lst[i] = x})

SeqToSet(lst) == {lst[i] : i \in DOMAIN lst}

\* the orders in which iterating a Python set can yield its elements
Orderings(S) ==
    {f \in [1..Cardinality(S) -> S] : \A i, j \in 1..Cardinality(S) :
        i # j => f[i] # f[j]}

(***************************************************************************)
(* The supported-environments file.  A section is an ordered sequence of   *)
(* entries; an entry is an environment name (the key) and its raw value    *)
(* block: one alias per line, each line possibly followed by a comment.    *)
(***************************************************************************)
System1 == <<"s1">>
System2 == <<"s2">>
System3 == <<"s3">>
Systems == {System1, System2, System3}

\* the keys the generated sections of System1 draw from
KeyPool ==
    { <<"a">>, <<"b">>, <<"a", "-", "1">>, <<"a", "_", "1">> }

\* the lines the raw value blocks draw from: an alias, an alias equal to a
\* key, an alias written with an underscore and followed by a comment, and
\* an alias with whitespace inside
LinePool ==
    { <<"a">>, <<"b">>, <<"a", "_", "1", " ", "#", "b">>, <<"a", " ", "b">> }

\* the build names handed to the constructor
BuildNamePool ==
    { <<"a", "_", "1">>, <<"a", "-", "1">>, <<"b", "-", "a">>,
      <<"a", "-", "2">>, <<"-">> }

\* the build names tried on the CUDA system
CudaBuildNamePool == { <<"cuda">>, <<"cuda", "_", "serial">> }

\* what the configuration parser stores for a key followed by these lines
RECURSIVE RawValueBlock(_)
RawValueBlock(lines) ==
    IF lines = <<>> THEN <<>>
    ELSE <<NL>> \o Head(lines) \o RawValueBlock(Tail(lines))

Entry(k, lines) == [key |-> k, value |-> RawValueBlock(lines)]

\* the fixed section of the CUDA system
CudaSection ==
    << Entry(<<"cuda", "-", "1">>, << <<"cuda">> >>) >>

\* the section of System1 while another system is the one resolved
PlainSection == << Entry(<<"a">>, <<>>) >>

\* the fixed section of the system of versioned packages: one environment
\* of three packages, each with a version, and a node type; one alias
VersionedEnvName ==
    <<"a", "-", "1", "-", "b", "-", "1", "-", "c", "-", "1", "-", "openmp">>

VersionedSection == << Entry(VersionedEnvName, << <<"a">> >>) >>

\* the build names tried on it: versions that are supported, one, two and
\* three that are not, a node type that is not, and both at once
VersionedBuildNamePool ==
    { <<"a", "-", "1">>,
      <<"a", "-", "2">>,
      <<"a", "-", "1", "-", "b", "-", "2">>,
      <<"a", "-", "2", "-", "b", "-", "2", "-", "c", "-", "2">>,
      <<"a", "-", "openmp">>,
      <<"a", "-", "1", "-", "serial">>,
      <<"a", "-", "2", "-", "serial">> }

\* the sections of the two fixed systems
FixedSection(y) == IF y = System2 THEN CudaSection ELSE VersionedSection

KeySeqs(n) ==
    {ks \in [1..n -> KeyPool] : \A i, j \in 1..n : i # j => ks[i] # ks[j]}

\* which entry each line belongs to: lines are laid out in entry order
Owners(m, n) ==
    {o \in [1..m -> 1..n] : \A i, j \in 1..m : i < j => o[i] <= o[j]}

\* the lines of entry i, in order
RECURSIVE LinesFrom(_, _, _, _)
LinesFrom(ls, o, i, j) ==
    IF j > Len(ls) THEN <<>>
    ELSE (IF o[j] = i THEN <<ls[j]>> ELSE <<>>) \o LinesFrom(ls, o, i, j + 1)

LinesOf(ls, o, i) == LinesFrom(ls, o, i, 1)

MakeSection(ks, ls, o) ==
    [i \in DOMAIN ks |-> Entry(ks[i], LinesOf(ls, o, i))]

\* what a generated section of System1 is made of: n distinct keys, m
\* lines, and the entry each line is under
SectionShapes(n, m) == KeySeqs(n) \X [1..m -> LinePool] \X Owners(m, n)

\* section.keys() and section.values()
Keys(section) == [i \in DOMAIN section |-> section[i].key]
Values(section) == [i \in DOMAIN section |-> section[i].value]

(***************************************************************************)
(* re.findall on the raw value block, with the pattern of                  *)
(* get_env_name_for_alias: the captures of the successive matches.  A      *)
(* match skips any number of comments (whitespace, a hash, the rest of the *)
(* line, newlines) and captures the longest run of characters other than   *)
(* hash, caret and newline.                                                *)
(***************************************************************************)
\* the first position at or after p that holds a character of stop, or
\* Len(raw) + 1
RECURSIVE FirstIn(_, _, _)
FirstIn(raw, p, stop) ==
    IF p > Len(raw) \/ raw[p] \in stop THEN p ELSE FirstIn(raw, p + 1, stop)

\* the first position at or after p that holds a character not in skip
RECURSIVE FirstNotIn(_, _, _)
FirstNotIn(raw, p, skip) ==
    IF p > Len(raw) \/ raw[p] \notin skip THEN p
    ELSE FirstNotIn(raw, p + 1, skip)

\* the comment group, repeated, from position p: where the last comment it
\* can take ends
RECURSIVE SkipComments(_, _)
SkipComments(raw, p) ==
    LET hash == FirstNotIn(raw, p, Whitespace)
    IN  IF hash <= Len(raw) /\ raw[hash] = "#"
        THEN SkipComments(raw,
                 FirstNotIn(raw, FirstIn(raw, hash, {NL}), {NL}))
        ELSE p

RECURSIVE FindAllFrom(_, _)
FindAllFrom(raw, p) ==
    LET start == SkipComments(raw, p)
        stop  == FirstIn(raw, start, {"#", "^", NL})
        capture == SubSeq(raw, start, stop - 1)
    IN  IF stop = p
        THEN \* an empty match: the search moves on by one character
             <<capture>> \o
                 (IF p > Len(raw) THEN <<>> ELSE FindAllFrom(raw, p + 1))
        ELSE <<capture>> \o FindAllFrom(raw, stop)

FindAll(raw) == FindAllFrom(raw, 1)

\* aliases_for_env of get_env_name_for_alias: the non-empty captures,
\* stripped, with underscores replaced
\* (the mutant strips the captures and keeps their underscores)
AliasesForEnvAsWritten(raw) ==
    LET kept == SelectSeq(FindAll(raw), LAMBDA c : c # <<>>)
    IN  [i \in DOMAIN kept |-> Strip(kept[i])]

AliasesForEnv(raw) ==
    LET kept == SelectSeq(FindAll(raw), LAMBDA c : c # <<>>)
    IN  [i \in DOMAIN kept |-> ReplaceUnderscores(Strip(kept[i]))]

(***************************************************************************)
(* Results of a call: it returns a value, or it ends in sys.exit(msg).     *)
(* The message is kept as its kind, the list it shows, the wording that    *)
(* goes with the list where the wording depends on it and, for the         *)
(* messages that show the supported environments, that listing.            *)
(***************************************************************************)
\* how the unsupported-version message words its list
VersionsPhrase(versions) ==
    IF Len(versions) = 1 THEN "'X' is not supported"
    ELSE IF Len(versions) = 2 THEN "'X' and 'Y' are not supported together"
    ELSE "'X', 'Y', ... are not supported together"

\* how the whitespace message words its list
WhitespacePhrase(bad) ==
    IF Len(bad) = 1 THEN "The following alias contains whitespace:"
    ELSE "The following aliases contain whitespace:"

Phrase(k, l) ==
    IF k = "unsupported_version" THEN VersionsPhrase(l)
    ELSE IF k = "alias_whitespace" THEN WhitespacePhrase(l)
    ELSE ""

Returned(v, l) ==
    [status |-> "return", kind |-> "", val |-> v, list |-> l,
     listing |-> <<>>, phrase |-> ""]

Exited(k, l, shown) ==
    [status |-> "exit", kind |-> k, val |-> <<>>, list |-> l,
     listing |-> shown, phrase |-> Phrase(k, l)]

(***************************************************************************)
(* get_values_for_section_key: the aliases of one entry.  Split the raw    *)
(* value block into lines, drop the comment of each line and the           *)
(* surrounding whitespace, drop what is empty, refuse aliases with         *)
(* whitespace inside, replace underscores.                                 *)
(***************************************************************************)
RECURSIVE SplitOn(_, _)
SplitOn(s, sep) ==
    LET cut == FirstIn(s, 1, {sep})
    IN  IF cut > Len(s) THEN <<s>>
        ELSE <<SubSeq(s, 1, cut - 1)>> \o
             SplitOn(SubSeq(s, cut + 1, Len(s)), sep)

UncommentedLine(line) == Strip(SubSeq(line, 1, FirstIn(line, 1, {"#"}) - 1))

HasWhitespace(s) == \E i \in DOMAIN s : s[i] \in Whitespace

GetValuesForSectionKey(raw) ==
    LET lines == SplitOn(raw, NL)
        texts == [i \in DOMAIN lines |-> UncommentedLine(lines[i])]
        found == SelectSeq(texts, LAMBDA t : t # <<>>)
        bad   == SelectSeq(found, HasWhitespace)
    IN  IF bad # <<>> THEN Exited("alias_whitespace", bad, <<>>)
        ELSE Returned(<<>>, [i \in DOMAIN found |-> ReplaceUnderscores(found[i])])

(***************************************************************************)
(* get_aliases and the two assertions it runs.                             *)
(***************************************************************************)
\* (the mutant takes a value for duplicated from its third occurrence on)
AliasesMoreThanTwice(alias_list) ==
    {a \in SeqToSet(alias_list) : Count(a, alias_list) > 2}

\* assert_alias_list_values_are_unique: the values that occur more than
\* once; the message lists them in the order iterating the set yields them
DuplicatedAliases(alias_list) ==
    {a \in SeqToSet(alias_list) : Count(a, alias_list) > 1}

\* (the mutant compares the aliases with the first environment name only)
AliasesEqualToFirstEnvName(alias_list, names) ==
    SelectSeq(alias_list, LAMBDA a : names # <<>> /\ a = names[1])

\* assert_aliases_not_equal_to_env_names: the aliases that are in env_names
AliasesEqualToEnvNames(alias_list, names) ==
    SelectSeq(alias_list, LAMBDA a : InList(a, names))

\* the loop of get_aliases over the entries, in configuration order: the
\* aliases gathered, or the exit of the first entry that is refused
RECURSIVE GatherAliases(_)
GatherAliases(section) ==
    IF section = <<>> THEN Returned(<<>>, <<>>)
    ELSE LET first == GetValuesForSectionKey(Head(section).value)
             rest  == GatherAliases(Tail(section))
         IN  IF first.status = "exit" THEN first
             ELSE IF rest.status = "exit" THEN rest
             ELSE Returned(<<>>, first.list \o rest.list)

\* (the mutant runs with the two assert statements compiled away)
GetAliasesUnchecked(section, names) == {GatherAliases(section)}

\* the results get_aliases can end with
GetAliases(section, names) ==
    LET gathered == GatherAliases(section)
        aliases  == gathered.list
        clashes  == AliasesEqualToEnvNames(aliases, names)
    IN  IF gathered.status = "exit" THEN {gathered}
        ELSE IF DuplicatedAliases(aliases) # {}
        THEN {Exited("alias_duplicates", d, <<>>) :
                  d \in Orderings(DuplicatedAliases(aliases))}
        ELSE IF clashes # <<>>
        THEN {Exited("alias_matches_env_name", clashes, <<>>)}
        ELSE {Returned(<<>>, aliases)}

(***************************************************************************)
(* get_env_name_for_alias.                                                 *)
(***************************************************************************)
\* whether the loop takes this entry for the alias
\* (the mutant looks for the alias in the raw text of the value block)
EntryHasAliasBySubstring(raw, matched_alias) ==
    raw # <<>> /\ IsSubstr(matched_alias, ReplaceUnderscores(raw))

EntryHasAlias(raw, matched_alias) ==
    raw # <<>> /\ InList(matched_alias, AliasesForEnv(raw))

GetEnvNameForAlias(section, matched_alias) ==
    LET unsorted_env_names == Keys(section)
        unparsed_aliases   == Values(section)
        hits == {idx \in DOMAIN unparsed_aliases :
                     EntryHasAlias(unparsed_aliases[idx], matched_alias)}
    IN  IF hits = {}
        THEN Exited("alias_not_in_aliases", <<matched_alias>>, <<>>)
        ELSE Returned(unsorted_env_names[CHOOSE i \in hits :
                           \A j \in hits : i <= j], <<>>)

(***************************************************************************)
(* get_msg_showing_supported_environments: the listing of the message, the *)
(* environment names in sorted order, each with its aliases in sorted      *)
(* order; or the exit of get_env_name_for_alias when it fails on one of    *)
(* the aliases.                                                            *)
(***************************************************************************)
\* (the mutant leaves the supported environments out of the message)
MsgWithoutSupportedEnvironments(kind, shown, section, names, alias_list) ==
    Exited(kind, shown, <<>>)

GetMsgShowingSupportedEnvironments(kind, shown, section, names, alias_list) ==
    LET lost == SelectSeq(alias_list, LAMBDA a :
                    GetEnvNameForAlias(section, a).status = "exit")
        sorted_names == Sorted(names)
        AliasesOf(name) ==
            Sorted(SelectSeq(alias_list, LAMBDA a :
                       GetEnvNameForAlias(section, a).val = name))
    IN  IF names # <<>> /\ lost # <<>>
        THEN GetEnvNameForAlias(section, Head(lost))
        ELSE Exited(kind, shown,
                    [i \in DOMAIN sorted_names |->
                        [name |-> sorted_names[i],
                         aliases |-> AliasesOf(sorted_names[i])]])

(***************************************************************************)
(* The two checks of the build name against the matched environment name:  *)
(* assert_kw_str_versions_for_env_name_components_are_supported and        *)
(* assert_kw_str_node_type_is_supported.                                   *)
(***************************************************************************)
NodeTypes == {"serial", "openmp"}

Tokens(s) == SplitOn(s, "-")

IsVersion(t) == t # <<>> /\ \A i \in DOMAIN t : t[i] \in Digits \cup {"."}

\* the components of the build name that state a version of a package of
\* the matched environment name, in the order of the build name
RECURSIVE VersionedFrom(_, _, _)
VersionedFrom(packages, toks, i) ==
    IF i >= Len(toks) THEN <<>>
    ELSE IF toks[i] \in packages /\ IsVersion(toks[i + 1])
    THEN <<toks[i] \o <<"-">> \o toks[i + 1]>> \o
         VersionedFrom(packages, toks, i + 2)
    ELSE VersionedFrom(packages, toks, i + 1)

VersionedComponents(matched_env_name, str) ==
    VersionedFrom({t \in SeqToSet(Tokens(matched_env_name)) : ~IsVersion(t)},
                  Tokens(str), 1)

\* the stated versions are supported when one environment name of the
\* system has them all
UnsupportedComponents(matched_env_name, str, names) ==
    LET stated == VersionedComponents(matched_env_name, str)
    IN  IF \E i \in DOMAIN names :
               \A j \in DOMAIN stated : IsSubstr(stated[j], names[i])
        THEN <<>>
        ELSE stated

\* a system is CUDA based when every environment name of it names cuda
IsCudaSystem(names) ==
    \A i \in DOMAIN names : InList(<<"cuda">>, Tokens(names[i]))

\* the node types of the build name that the check refuses
UnsupportedNodeTypes(matched_env_name, str, names) ==
    LET asked == SelectSeq(Tokens(str), LAMBDA t :
                     Len(t) = 1 /\ t[1] \in NodeTypes)
    IN  IF IsCudaSystem(names) THEN asked
        ELSE SelectSeq(asked, LAMBDA t : ~IsSubstr(t, matched_env_name))

(***************************************************************************)
(* The body of the qualified_env_name property, run when no result is      *)
(* stored: the result, the stages it went through and its two locals.      *)
(***************************************************************************)
\* the first element of the list that occurs in the build name, if any
FirstIn_build_name(lst, str) ==
    LET hits == SelectSeq(lst, LAMBDA k : IsSubstr(k, str))
    IN  IF hits = <<>> THEN None ELSE Some(Head(hits))

\* `if matched_env_name is None:` -- whether the aliases are walked
\* (the mutant walks them whatever the names gave)
ConsultAliasesAlways(by_name) == TRUE

ConsultAliases(by_name) == by_name = None

Outcome(r, st, name, alias) ==
    [result |-> r, steps |-> st, matched_env_name |-> name,
     matched_alias |-> alias]

\* (the mutant checks the node type before the versions)
NodeTypeCheckFirst(env, alias, st, str, sys, names, alias_list, section) ==
    LET versions == UnsupportedComponents(env, str, names)
        nodes    == UnsupportedNodeTypes(env, str, names)
    IN  IF nodes # <<>>
        THEN Outcome(GetMsgShowingSupportedEnvironments(
                         IF IsCudaSystem(names)
                         THEN "node_type_not_applicable_to_cuda"
                         ELSE "unsupported_node_type",
                         nodes, section, names, alias_list),
                     st \o <<"assert_node_type">>, Some(env), alias)
        ELSE IF versions # <<>>
        THEN Outcome(GetMsgShowingSupportedEnvironments(
                         "unsupported_version", versions, section, names,
                         alias_list),
                     st \o <<"assert_node_type", "assert_versions">>,
                     Some(env), alias)
        ELSE Outcome(Returned(sys \o <<"-">> \o env, <<>>),
                     st \o <<"assert_node_type", "assert_versions", "compose">>,
                     Some(env), alias)

\* (the mutant goes from the check of the versions to the name, without
\* the check of the node type)
ComposeWithoutNodeTypeCheck(env, alias, st, str, sys, names, alias_list, section) ==
    LET versions == UnsupportedComponents(env, str, names)
    IN  IF versions # <<>>
        THEN Outcome(GetMsgShowingSupportedEnvironments(
                         "unsupported_version", versions, section, names,
                         alias_list),
                     st \o <<"assert_versions">>, Some(env), alias)
        ELSE Outcome(Returned(sys \o <<"-">> \o env, <<>>),
                     st \o <<"assert_versions", "compose">>,
                     Some(env), alias)

\* from the matched environment name on: the two checks, then the name
CheckAndCompose(env, alias, st, str, sys, names, alias_list, section) ==
    LET versions == UnsupportedComponents(env, str, names)
        nodes    == UnsupportedNodeTypes(env, str, names)
    IN  IF versions # <<>>
        THEN Outcome(GetMsgShowingSupportedEnvironments(
                         "unsupported_version", versions, section, names,
                         alias_list),
                     st \o <<"assert_versions">>, Some(env), alias)
        ELSE IF nodes # <<>>
        THEN Outcome(GetMsgShowingSupportedEnvironments(
                         IF IsCudaSystem(names)
                         THEN "node_type_not_applicable_to_cuda"
                         ELSE "unsupported_node_type",
                         nodes, section, names, alias_list),
                     st \o <<"assert_versions", "assert_node_type">>,
                     Some(env), alias)
        ELSE Outcome(Returned(sys \o <<"-">> \o env, <<>>),
                     st \o <<"assert_versions", "assert_node_type", "compose">>,
                     Some(env), alias)

Resolve(str, sys, names, alias_list, section) ==
    LET by_name  == FirstIn_build_name(names, str)
        by_alias == FirstIn_build_name(alias_list, str)
        owner    == GetEnvNameForAlias(section, by_alias[1])
    IN  IF ~ConsultAliases(by_name)
        THEN CheckAndCompose(by_name[1], None, <<"match_env_names">>,
                             str, sys, names, alias_list, section)
        ELSE IF by_alias = None
        THEN Outcome(GetMsgShowingSupportedEnvironments(
                         "not_found", <<>>, section, names, alias_list),
                     <<"match_env_names", "match_aliases">>, by_name, None)
        ELSE IF owner.status = "exit"
        THEN Outcome(owner,
                     <<"match_env_names", "match_aliases",
                       "get_env_name_for_alias">>, by_name, by_alias)
        ELSE CheckAndCompose(owner.val, by_alias,
                             <<"match_env_names", "match_aliases",
                               "get_env_name_for_alias">>,
                             str, sys, names, alias_list, section)

(***************************************************************************)
(* LoadEnv (load_env.py): the system the environment is loaded for, from   *)
(* the hostname and from the build name.  supported_systems_data is the    *)
(* sequence of the sections of supported-systems.ini, each with its name   *)
(* and its keys; the keys are the hostname patterns of the system.         *)
(***************************************************************************)
MaxSystems == 2

Default == <<"DEFAULT">>
System10 == <<"s1", "0">>
SysNamePool == {System1, System2, System10, Default}

\* the key lists of a section: none, a literal pattern, a pattern with a
\* comment before another pattern, an anchored pattern
HostKeysPool ==
    { <<>>,
      << <<"h", "1">> >>,
      << <<"h", "2", " ", "#", "c">>, <<"h", "1">> >>,
      << <<"^", "h", "2">> >> }

HostnamePool == { <<"h", "1">>, <<"x", "h", "2">> }

LoadEnvBuildNamePool ==
    { <<"s1", "-", "a">>, <<"a", "-", "s2">>, <<"s1", "0", "-", "a">>,
      <<"s1", "-", "s2">>, <<"a">>, <<"DEFAULT", "-", "a">> }

\* the section lists of n sections with distinct names
SystemsData(n) ==
    {d \in [1..n -> [name : SysNamePool, keys : HostKeysPool]] :
        \A i, j \in 1..n : i # j => d[i].name # d[j].name}

\* sys_names: self.supported_systems_data.sections() without "DEFAULT"
Sections(data) == [i \in DOMAIN data |-> data[i].name]

SysNames(data) == SelectSeq(Sections(data), LAMBDA n : n # Default)

\* re.findall(r"([^#^\s]*)(?:\s*#.*)?", key)[0]: the first match starts at
\* the first character and its group is the run of characters that are
\* neither '#' nor '^' nor whitespace
StripKeyOfComments(key) ==
    SubSeq(key, 1, FirstIn(key, 1, {"#", "^"} \cup Whitespace) - 1)

\* re.findall(key, hostname) for a key without metacharacters: the
\* occurrences of the key from left to right, without overlap; the empty
\* key matches at every position
RECURSIVE ReFindAllFrom(_, _, _)
ReFindAllFrom(key, hostname, p) ==
    IF p + Len(key) > Len(hostname) + 1 THEN <<>>
    ELSE IF SubSeq(hostname, p, p + Len(key) - 1) = key
    THEN <<key>> \o ReFindAllFrom(key, hostname,
                        p + (IF key = <<>> THEN 1 ELSE Len(key)))
    ELSE ReFindAllFrom(key, hostname, p + 1)

ReFindAll(key, hostname) == ReFindAllFrom(key, hostname, 1)

\* matches of one section: the matches of its keys, one key after another
MatchesOf(section_keys, hostname) ==
    LET keys == [i \in DOMAIN section_keys |->
                    StripKeyOfComments(section_keys[i])]
    IN  Flatten([i \in DOMAIN keys |-> ReFindAll(keys[i], hostname)])

\* get_sys_name_from_hostname(hostname): the first system with a match
GetSysNameFromHostname(data, hostname) ==
    LET matched == SelectSeq(data, LAMBDA sec :
                       sec.name # Default /\
                       Len(MatchesOf(sec.keys, hostname)) > 0)
    IN  IF matched = <<>> THEN None ELSE Some(Head(matched).name)

\* get_sys_name_from_build_name()
\* (the mutant takes the first of the system names in the build name,
\* however many there are)
FirstSysNameInBuildName(data, str) ==
    LET sys_name_from_build_names ==
            SelectSeq(SysNames(data), LAMBDA n : IsSubstr(n, str))
    IN  IF Len(sys_name_from_build_names) = 0 THEN Returned(None, <<>>)
        ELSE Returned(Some(sys_name_from_build_names[1]), <<>>)

GetSysNameFromBuildName(data, str) ==
    LET sys_name_from_build_names ==
            SelectSeq(SysNames(data), LAMBDA n : IsSubstr(n, str))
    IN  IF Len(sys_name_from_build_names) > 1
        THEN Exited("more_than_one_system_name",
                    sys_name_from_build_names, <<>>)
        ELSE IF Len(sys_name_from_build_names) = 0
        THEN Returned(None, <<>>)
        ELSE Returned(Some(sys_name_from_build_names[1]), <<>>)

\* a call of determine_system ends with a result and leaves
\* self.system_name set
Determined(r, sys) == [result |-> r, system_name |-> sys]

\* the body of determine_system under `if self.system_name is None:`
\* (the mutant keeps the system of the hostname when there is one)
HostnameTakesPrecedence(data, hostname, str, force) ==
    LET sys_name_from_hostname == GetSysNameFromHostname(data, hostname)
        from_build_name == GetSysNameFromBuildName(data, str)
    IN  IF from_build_name.status = "exit"
        THEN Determined(from_build_name, sys_name_from_hostname)
        ELSE IF sys_name_from_hostname = None /\ from_build_name.val = None
        THEN Determined(Exited("no_valid_system_name", <<hostname>>, <<>>),
                        None)
        ELSE IF sys_name_from_hostname # None
        THEN Determined(Returned(None, <<>>), sys_name_from_hostname)
        ELSE Determined(Returned(None, <<>>), from_build_name.val)

DetermineSystemBody(data, hostname, str, force) ==
    LET sys_name_from_hostname == GetSysNameFromHostname(data, hostname)
        from_build_name == GetSysNameFromBuildName(data, str)
    IN  IF from_build_name.status = "exit"
        THEN \* self.system_name was assigned before the call that exits
             Determined(from_build_name, sys_name_from_hostname)
        ELSE IF sys_name_from_hostname = None /\ from_build_name.val = None
        THEN Determined(Exited("no_valid_system_name", <<hostname>>, <<>>),
                        None)
        ELSE IF from_build_name.val # None
        THEN IF /\ sys_name_from_hostname # None
                /\ sys_name_from_hostname # from_build_name.val
                /\ force = FALSE
             THEN \* self.system_name was assigned before the check
                  Determined(Exited("add_force_flag",
                                 <<hostname, sys_name_from_hostname[1],
                                   from_build_name.val[1]>>, <<>>),
                             from_build_name.val)
             ELSE Determined(Returned(None, <<>>), from_build_name.val)
        ELSE Determined(Returned(None, <<>>), sys_name_from_hostname)

(***************************************************************************)
(* The state: the file, the arguments of the constructor, the instance and *)
(* what the last call did.                                                 *)
(***************************************************************************)
VARIABLES
    supported_envs,      \* the sections of supported_envs_filename
    build_name_arg,      \* the build_name handed to __init__
    system_name_arg,     \* the system_name handed to __init__
    pc,                  \* "new", "ready" (constructed), "dead" (__init__ exited)
    build_name,          \* self.build_name
    system_name,         \* self.system_name
    env_names,           \* self.env_names
    aliases,             \* self.aliases
    qualified_env_name,  \* self._qualified_env_name, None while not set
    ret,                 \* the last call: its name, argument and result
    steps,               \* the stages the last call of the property ran
    matched_env_name,    \* matched_env_name of the last run of the body
    matched_alias,       \* matched_alias of the last run of the body
    config_reads,        \* how often the instance has loaded the file
    earlier,             \* the build name and the outcome of the instance
                         \* before this one, None for the first instance
    earlier_failure,     \* the result of the latest read of the property
                         \* that failed on this instance before the last
                         \* call, None if there is none
    supported_systems_data,  \* LoadEnv: the sections of supported-systems.ini
    hostname,            \* LoadEnv: what socket.gethostname() returns
    args,                \* LoadEnv: self.args, its build_name and force
    load_env_system_name,    \* LoadEnv: self.system_name, None while not set
    load_env_ret,        \* LoadEnv: the last call, with self.system_name
                         \* as it was before the call
    parsed_env_name      \* LoadEnv: self._parsed_env_name, None while not set

vars ==
    <<supported_envs, build_name_arg, system_name_arg, pc, build_name,
      system_name, env_names, aliases, qualified_env_name, ret, steps,
      matched_env_name, matched_alias, config_reads, earlier,
      earlier_failure, supported_systems_data, hostname, args, load_env_system_name,
      load_env_ret, parsed_env_name>>

\* the state of the LoadEnv instance and what it is given
load_env_vars ==
    <<supported_systems_data, hostname, args, load_env_system_name,
      load_env_ret, parsed_env_name>>

\* the state of the ConfigKeywordParser instance and what it is given
parser_vars ==
    <<supported_envs, build_name_arg, system_name_arg, pc, build_name,
      system_name, env_names, aliases, qualified_env_name, ret, steps,
      matched_env_name, matched_alias, config_reads, earlier,
      earlier_failure>>

Call(op, arg, r) == [op |-> op, arg |-> arg, result |-> r]

\* an alias no section has
BadAlias == <<"b", "_", "a">>

Init ==
    /\ \/ /\ system_name_arg = System1
          /\ build_name_arg \in BuildNamePool
          /\ \E n \in 1..MaxEntries, m \in 0..MaxAliasLines :
                 \E t \in SectionShapes(n, m) :
                    supported_envs = [y \in Systems |->
                        IF y = System1 THEN MakeSection(t[1], t[2], t[3])
                        ELSE FixedSection(y)]
       \/ /\ \/ /\ system_name_arg = System2
                /\ build_name_arg \in CudaBuildNamePool
             \/ /\ system_name_arg = System3
                /\ build_name_arg \in VersionedBuildNamePool
          /\ supported_envs = [y \in Systems |->
                 IF y = System1 THEN PlainSection ELSE FixedSection(y)]
    /\ pc = "new"
    /\ build_name = None
    /\ system_name = None
    /\ env_names = <<>>
    /\ aliases = <<>>
    /\ qualified_env_name = None
    /\ ret = Call("none", <<>>, Returned(<<>>, <<>>))
    /\ steps = <<>>
    /\ matched_env_name = None
    /\ matched_alias = None
    /\ config_reads = 0
    /\ earlier = None
    /\ earlier_failure = None
    /\ supported_systems_data = <<>>
    /\ hostname = <<>>
    /\ args = [build_name |-> <<>>, force |-> FALSE]
    /\ load_env_system_name = None
    /\ load_env_ret = [op |-> "none", before |-> None,
                       result |-> Returned(None, <<>>)]
    /\ parsed_env_name = None

\* self.build_name = build_name.replace("_", "-")
\* (the mutant stores the build name as given)
BuildNameAsGiven(str) == str

NormalizedBuildName(str) == ReplaceUnderscores(str)

\* the supported_envs property loads the file on every access: the count
\* of the loads after k more of them
Loaded(n, k) == IF n + k > MaxReads THEN MaxReads ELSE n + k

\* the accesses of supported_envs in a run of the body of
\* qualified_env_name: two in each call of get_env_name_for_alias, which
\* the body calls for the matched alias and the message calls for every
\* alias under every environment name
ReadsOfBody(o, names, alias_list) ==
    (IF InList("get_env_name_for_alias", o.steps) THEN 2 ELSE 0)
    + (IF o.result.kind \in {"not_found", "unsupported_version",
                             "node_type_not_applicable_to_cuda",
                             "unsupported_node_type"}
       THEN 2 * Len(names) * Len(alias_list) ELSE 0)

\* __init__(build_name, system_name, supported_envs_filename): one access
\* of supported_envs of its own, one in get_aliases
Constructor(str, sys) ==
    /\ build_name' = NormalizedBuildName(str)
    /\ system_name' = sys
    /\ env_names' = SortedByLenDescending(Keys(supported_envs[sys]))
    /\ \E r \in GetAliases(supported_envs[sys], env_names') :
          /\ ret' = Call("__init__", <<>>, r)
          /\ IF r.status = "exit"
             THEN pc' = "dead" /\ aliases' = <<>>
             ELSE pc' = "ready" /\ aliases' = SortedByLenDescending(r.list)
    /\ qualified_env_name' = None
    /\ steps' = <<>>
    /\ matched_env_name' = None
    /\ matched_alias' = None
    /\ earlier_failure' = None
    /\ config_reads' = Loaded(0, 2)

\* the first instance is constructed
Construct ==
    /\ pc = "new"
    /\ Constructor(build_name_arg, system_name_arg)
    /\ UNCHANGED <<load_env_vars, supported_envs, build_name_arg, system_name_arg, earlier>>

\* two build names that differ only in underscores versus hyphens
DifferOnlyInUnderscores(s, t) ==
    /\ s # t
    /\ Len(s) = Len(t)
    /\ \A i \in DOMAIN s : s[i] = t[i] \/ {s[i], t[i]} = {"_", "-"}

\* the instance has its outcome: __init__ exited, or the property was read
Settled ==
    \/ pc = "dead"
    \/ pc = "ready" /\ ret.op = "qualified_env_name"

\* a new instance for the same system and file, and for a build name that
\* differs from the one before only in underscores versus hyphens
ConstructAgain ==
    /\ Settled
    /\ \E str \in BuildNamePool \cup CudaBuildNamePool \cup
                  VersionedBuildNamePool \cup
                  {ReplaceUnderscores(build_name_arg)} :
          /\ DifferOnlyInUnderscores(str, build_name_arg)
          /\ build_name_arg' = str
          /\ Constructor(str, system_name_arg)
    /\ earlier' = Some([build_name_arg |-> build_name_arg,
                        result |-> ret.result])
    /\ UNCHANGED <<load_env_vars, supported_envs, system_name_arg>>

\* the latest failed read of the property, the last call included
FailureBefore ==
    IF ret.op = "qualified_env_name" /\ ret.result.status = "exit"
    THEN Some(ret.result) ELSE earlier_failure

\* `self._qualified_env_name = ...` is reached only when no check exited:
\* what the instance stores after a run of the body
\* (the mutant stores the value of the run however it ended)
StoredWhateverTheResult(result, stored) == Some(result.val)

StoredAfter(result, stored) ==
    IF result.status = "return" THEN Some(result.val) ELSE stored

\* `if not hasattr(self, "_qualified_env_name"):` -- whether the body runs
\* (the mutant runs it on every access)
BodyRunsAlways(stored) == TRUE

BodyRuns(stored) == stored = None

\* the qualified_env_name property
QualifiedEnvName ==
    /\ pc = "ready"
    /\ IF BodyRuns(qualified_env_name)
       THEN \E o \in {Resolve(build_name, system_name, env_names, aliases,
                              supported_envs[system_name])} :
                /\ ret' = Call("qualified_env_name", <<>>, o.result)
                /\ steps' = o.steps
                /\ matched_env_name' = o.matched_env_name
                /\ matched_alias' = o.matched_alias
                /\ qualified_env_name' =
                       StoredAfter(o.result, qualified_env_name)
                /\ config_reads' =
                       Loaded(config_reads,
                              ReadsOfBody(o, env_names, aliases))
       ELSE /\ ret' = Call("qualified_env_name", <<>>,
                           Returned(qualified_env_name[1], <<>>))
            /\ steps' = <<>>
            /\ UNCHANGED <<matched_env_name, matched_alias,
                           qualified_env_name, config_reads>>
    /\ earlier_failure' = FailureBefore
    /\ UNCHANGED <<load_env_vars, supported_envs, build_name_arg, system_name_arg, pc,
                   build_name, system_name, env_names, aliases, earlier>>

\* a call of get_aliases on the instance
CallGetAliases ==
    /\ pc = "ready"
    /\ \E r \in GetAliases(supported_envs[system_name], env_names) :
          ret' = Call("get_aliases", <<>>, r)
    /\ config_reads' = Loaded(config_reads, 1)
    /\ earlier_failure' = FailureBefore
    /\ UNCHANGED <<load_env_vars, supported_envs, build_name_arg, system_name_arg, pc,
                   build_name, system_name, env_names, aliases,
                   qualified_env_name, steps, matched_env_name,
                   matched_alias, earlier>>

\* a call of get_env_name_for_alias on the instance
CallGetEnvNameForAlias ==
    /\ pc = "ready"
    /\ \E a \in SeqToSet(aliases) \cup {BadAlias} :
          ret' = Call("get_env_name_for_alias", a,
                      GetEnvNameForAlias(supported_envs[system_name], a))
    /\ config_reads' = Loaded(config_reads, 2)
    /\ earlier_failure' = FailureBefore
    /\ UNCHANGED <<load_env_vars, supported_envs, build_name_arg, system_name_arg, pc,
                   build_name, system_name, env_names, aliases,
                   qualified_env_name, steps, matched_env_name,
                   matched_alias, earlier>>

Next ==
    \/ Construct
    \/ ConstructAgain
    \/ QualifiedEnvName
    \/ CallGetAliases
    \/ CallGetEnvNameForAlias

Spec == Init /\ [][Next]_vars

(***************************************************************************)
(* LoadEnv: the instance after __init__, for a supported-systems.ini, a    *)
(* hostname and command line arguments, and the calls on it.               *)
(***************************************************************************)
InitLoadEnv ==
    /\ \E n \in 1..MaxSystems : supported_systems_data \in SystemsData(n)
    /\ hostname \in HostnamePool
    /\ args \in [build_name : LoadEnvBuildNamePool, force : BOOLEAN]
    /\ load_env_system_name = None
    /\ load_env_ret = [op |-> "none", before |-> None,
                       result |-> Returned(None, <<>>)]
    /\ parsed_env_name = None
    /\ system_name_arg = System1
    /\ build_name_arg = <<"a">>
    /\ supported_envs = [y \in Systems \cup {System10} |->
           IF y \in {System1, System10} THEN PlainSection
           ELSE FixedSection(y)]
    /\ pc = "new"
    /\ build_name = None
    /\ system_name = None
    /\ env_names = <<>>
    /\ aliases = <<>>
    /\ qualified_env_name = None
    /\ ret = Call("none", <<>>, Returned(<<>>, <<>>))
    /\ steps = <<>>
    /\ matched_env_name = None
    /\ matched_alias = None
    /\ config_reads = 0
    /\ earlier = None
    /\ earlier_failure = None

LoadEnvCall(op, before, r) == [op |-> op, before |-> before, result |-> r]

\* a call of get_sys_name_from_hostname(hostname) on the instance
CallGetSysNameFromHostname ==
    /\ load_env_ret' = LoadEnvCall("get_sys_name_from_hostname",
           load_env_system_name,
           Returned(GetSysNameFromHostname(supported_systems_data, hostname),
                    <<>>))
    /\ UNCHANGED <<parser_vars, supported_systems_data, hostname, args,
                   load_env_system_name, parsed_env_name>>

\* a call of get_sys_name_from_build_name() on the instance
CallGetSysNameFromBuildName ==
    /\ load_env_ret' = LoadEnvCall("get_sys_name_from_build_name",
           load_env_system_name,
           GetSysNameFromBuildName(supported_systems_data, args.build_name))
    /\ UNCHANGED <<parser_vars, supported_systems_data, hostname, args,
                   load_env_system_name, parsed_env_name>>

\* a call of determine_system() on the instance
DetermineSystem ==
    /\ IF load_env_system_name = None
       THEN \E d \in {DetermineSystemBody(supported_systems_data, hostname,
                                          args.build_name, args.force)} :
                /\ load_env_system_name' = d.system_name
                /\ load_env_ret' = LoadEnvCall("determine_system",
                                               load_env_system_name, d.result)
       ELSE /\ load_env_ret' = LoadEnvCall("determine_system",
                                           load_env_system_name,
                                           Returned(None, <<>>))
            /\ UNCHANGED load_env_system_name
    /\ UNCHANGED <<parser_vars, supported_systems_data, hostname, args,
                   parsed_env_name>>

\* determine_system() as parsed_env_name calls it, on an instance whose
\* self.system_name is current
DetermineSystemFrom(current, data, host, str, force) ==
    IF current = None THEN DetermineSystemBody(data, host, str, force)
    ELSE Determined(Returned(None, <<>>), current)

\* EnvKeywordParser(build_name, system_name, file).qualified_env_name: the
\* results the construction and the first read of the property can end with
QualifiedEnvNameOfNewParser(str, sys, envs) ==
    LET section == envs[sys]
        names   == SortedByLenDescending(Keys(section))
    IN  {IF r.status = "exit" THEN r
         ELSE Resolve(NormalizedBuildName(str), sys, names,
                      SortedByLenDescending(r.list), section).result :
            r \in GetAliases(section, names)}

\* a read of the parsed_env_name property of the instance
ParsedEnvName ==
    /\ IF parsed_env_name # None
       THEN /\ load_env_ret' = LoadEnvCall("parsed_env_name",
                                           load_env_system_name,
                                           Returned(parsed_env_name[1], <<>>))
            /\ UNCHANGED <<load_env_system_name, parsed_env_name>>
       ELSE \E d \in {DetermineSystemFrom(load_env_system_name,
                            supported_systems_data, hostname,
                            args.build_name, args.force)} :
                /\ load_env_system_name' = d.system_name
                /\ IF d.result.status = "exit"
                   THEN /\ load_env_ret' = LoadEnvCall("parsed_env_name",
                               load_env_system_name, d.result)
                        /\ UNCHANGED parsed_env_name
                   ELSE \E r \in QualifiedEnvNameOfNewParser(args.build_name,
                                     d.system_name[1], supported_envs) :
                            /\ load_env_ret' = LoadEnvCall("parsed_env_name",
                                   load_env_system_name, r)
                            /\ parsed_env_name' =
                                   IF r.status = "return" THEN Some(r.val)
                                   ELSE parsed_env_name
    /\ UNCHANGED <<parser_vars, supported_systems_data, hostname, args>>

NextLoadEnv ==
    \/ CallGetSysNameFromHostname
    \/ CallGetSysNameFromBuildName
    \/ DetermineSystem
    \/ ParsedEnvName

SpecLoadEnv == InitLoadEnv /\ [][NextLoadEnv]_vars

(***************************************************************************)
(* What the claims speak of, read off the file and the arguments rather    *)
(* than off the instance.                                                  *)
(***************************************************************************)
\* the section of the system the instance was constructed for
TheSection == supported_envs[system_name_arg]

\* the EntryNames of the section: its keys, as the file has them
EntryNames == SeqToSet(Keys(TheSection))

\* the aliases listed under entry i of the section
ListedAliases(i) == AliasesForEnv(TheSection[i].value)

\* the concatenation of the entries' alias lists, in configuration order
AllListedAliases ==
    Flatten([i \in DOMAIN TheSection |-> ListedAliases(i)])

\* the normalized candidate
Candidate ==
    [i \in DOMAIN build_name_arg |->
        IF build_name_arg[i] = "_" THEN "-" ELSE build_name_arg[i]]

\* the EntryNames and the aliases that occur in the normalized candidate
NamesInCandidate == {k \in EntryNames : IsSubstr(k, Candidate)}
AliasesInCandidate ==
    {a \in SeqToSet(AllListedAliases) : IsSubstr(a, Candidate)}

\* the position of the first occurrence of x in lst
IndexIn(x, lst) == CHOOSE i \in DOMAIN lst :
    lst[i] = x /\ \A j \in DOMAIN lst : lst[j] = x => i <= j

\* the last call read qualified_env_name and ran its body
BodyRan == ret.op = "qualified_env_name" /\ steps # <<>>

\* two results are the same outcome: the same value, or the same failure
\* (the order of a list of duplicated aliases is the order of a Python set)
SameOutcome(r, q) ==
    /\ r.status = q.status
    /\ r.kind = q.kind
    /\ r.val = q.val
    /\ SeqToSet(r.list) = SeqToSet(q.list)
    /\ Len(r.list) = Len(q.list)
    /\ r.listing = q.listing
    /\ r.phrase = q.phrase

(***************************************************************************)
(* The claims.                                                             *)
(***************************************************************************)

\* C1: name match takes precedence over alias match.  Whenever the body of
\* qualified_env_name has run and some EntryName of the section occurs in
\* the normalized candidate, the match is one of those EntryNames and the
\* alias list was not walked (no alias was matched), whatever aliases occur
\* in the candidate; the alias list is walked exactly when no EntryName
\* occurs in the candidate.
C1_NameMatchTakesPrecedence ==
    BodyRan =>
        /\ InList("match_aliases", steps) <=> NamesInCandidate = {}
        /\ NamesInCandidate # {} =>
              /\ matched_alias = None
              /\ matched_env_name # None
              /\ matched_env_name[1] \in NamesInCandidate

\* C1, its case: a name was matched while an alias of another entry occurs
\* in the candidate too
C1_Witness ==
    /\ BodyRan
    /\ NamesInCandidate # {}
    /\ \E i \in DOMAIN TheSection :
          /\ Some(TheSection[i].key) # matched_env_name
          /\ \E j \in DOMAIN ListedAliases(i) :
                 IsSubstr(ListedAliases(i)[j], Candidate)

\* C2: longest match wins.  The matched EntryName is as long as any
\* EntryName that occurs in the normalized candidate; and when no EntryName
\* occurs in it, the matched alias is one of the aliases that occur in it
\* and is as long as any of them.
C2_LongestMatchWins ==
    BodyRan =>
        /\ NamesInCandidate # {} =>
              \A k \in NamesInCandidate : Len(k) <= Len(matched_env_name[1])
        /\ (NamesInCandidate = {} /\ AliasesInCandidate # {}) =>
              /\ matched_alias # None
              /\ matched_alias[1] \in AliasesInCandidate
              /\ \A a \in AliasesInCandidate : Len(a) <= Len(matched_alias[1])

\* C2, its case: two EntryNames of different lengths occur in the candidate
C2_Witness ==
    /\ BodyRan
    /\ \E k \in NamesInCandidate :
          Len(k) < Len(matched_env_name[1])

\* C3: the equal-length tie-break is first-seen.  Of the EntryNames of the
\* matched length that occur in the candidate, the matched one comes first
\* in configuration order; and so for the matched alias, in the order of
\* the concatenation of the entries' alias lists.
C3_TieBreakIsFirstSeen ==
    BodyRan =>
        /\ NamesInCandidate # {} =>
              \A k \in NamesInCandidate :
                  Len(k) = Len(matched_env_name[1]) =>
                      IndexIn(matched_env_name[1], Keys(TheSection))
                          <= IndexIn(k, Keys(TheSection))
        /\ (NamesInCandidate = {} /\ matched_alias # None) =>
              \A a \in AliasesInCandidate :
                  Len(a) = Len(matched_alias[1]) =>
                      IndexIn(matched_alias[1], AllListedAliases)
                          <= IndexIn(a, AllListedAliases)

\* C3, its case: a second EntryName of the matched length occurs in the
\* candidate
C3_Witness ==
    /\ BodyRan
    /\ matched_alias = None
    /\ \E k \in NamesInCandidate :
          k # matched_env_name[1] /\ Len(k) = Len(matched_env_name[1])

\* C4: two build names that differ only in underscores versus hyphens,
\* resolved for the same system and file, have the same outcome: once this
\* instance and the one before it both have their outcome, the two are the
\* same qualified environment name or the same failure.
C4_UnderscoresAndHyphensAgree ==
    ( /\ earlier # None
      /\ Settled
      /\ DifferOnlyInUnderscores(earlier[1].build_name_arg, build_name_arg) )
        => SameOutcome(ret.result, earlier[1].result)

\* C4, its case: the second of two such build names resolved to a name
\* that is matched across the place where they differ
C4_Witness ==
    /\ earlier # None
    /\ DifferOnlyInUnderscores(earlier[1].build_name_arg, build_name_arg)
    /\ BodyRan
    /\ ret.result.status = "return"
    /\ matched_alias = None
    /\ InList("-", matched_env_name[1])

\* C5: the result is memoized.  Once _qualified_env_name is stored, every
\* step of the same instance leaves it as it is, and every later read of
\* qualified_env_name returns the stored value without running name or
\* alias matching or either check.
C5_ResultIsMemoized ==
    [][ (qualified_env_name # None /\ ret'.op # "__init__") =>
            /\ qualified_env_name' = qualified_env_name
            /\ ret'.op = "qualified_env_name" =>
                  /\ ret'.result = Returned(qualified_env_name[1], <<>>)
                  /\ steps' = <<>> ]_vars

\* C5, its case: a read of qualified_env_name after the result was stored
C5_Witness ==
    /\ qualified_env_name # None
    /\ ret.op = "qualified_env_name"
    /\ steps = <<>>

\* of the aliases listed in the section: the values listed more than once
MoreThanOnce(listed) ==
    {listed[i] : i \in {j \in DOMAIN listed :
                    \E k \in DOMAIN listed : k # j /\ listed[k] = listed[j]}}

\* of the aliases listed: those that equal an EntryName, in the order listed
EqualToEntryName(listed) ==
    LET names == EntryNames
    IN  SelectSeq(listed, LAMBDA a : a \in names)

\* of the aliases listed: those with whitespace inside
WithWhitespace(listed) == SelectSeq(listed, HasWhitespace)

\* the last call built the alias list: __init__ or get_aliases
BuiltAliases == ret.op \in {"__init__", "get_aliases"}

\* C6, as claimed: every alias list that is returned is disjoint from the
\* EntryNames, and whenever a listed alias equals an EntryName, building
\* the alias list ends with the 'matches an environment name' error that
\* lists the offending aliases.
C6_AsClaimed ==
    BuiltAliases =>
        /\ ret.result.status = "return" =>
              SeqToSet(ret.result.list) \cap EntryNames = {}
        /\ LET equal == EqualToEntryName(AllListedAliases)
           IN  equal # <<>> =>
                  /\ ret.result.status = "exit"
                  /\ ret.result.kind = "alias_matches_env_name"
                  /\ ret.result.list = equal

\* C6, amended: every alias list that is returned is disjoint from the
\* EntryNames; and whenever a listed alias equals an EntryName, and the
\* checks that run before this one pass (no alias has whitespace inside, no
\* alias value is listed twice), building the alias list ends with the
\* 'matches an environment name' error that lists the offending aliases.
C6_AliasesDisjointFromNames ==
    BuiltAliases =>
        /\ ret.result.status = "return" =>
              SeqToSet(ret.result.list) \cap EntryNames = {}
        /\ LET listed == AllListedAliases
               equal  == EqualToEntryName(listed)
           IN  ( /\ equal # <<>>
                 /\ WithWhitespace(listed) = <<>>
                 /\ MoreThanOnce(listed) = {} ) =>
                  /\ ret.result.status = "exit"
                  /\ ret.result.kind = "alias_matches_env_name"
                  /\ ret.result.list = equal

\* C6, its case: the constructor ended with the 'matches an environment
\* name' error
C6_Witness ==
    /\ ret.op = "__init__"
    /\ ret.result.kind = "alias_matches_env_name"

\* whether the list holds each element of the set once, and nothing else
ListsExactlyOnce(lst, S) == SeqToSet(lst) = S /\ Len(lst) = Cardinality(S)

\* C7, as claimed: whenever an alias value is listed more than once in the
\* section, building the alias list ends with the 'contains duplicates'
\* error, whose list holds every duplicated value once and nothing else;
\* and when no value is repeated, it does not end with that error.
C7_AsClaimed ==
    BuiltAliases =>
        LET repeated == MoreThanOnce(AllListedAliases)
        IN  /\ repeated # {} =>
                  /\ ret.result.status = "exit"
                  /\ ret.result.kind = "alias_duplicates"
                  /\ ListsExactlyOnce(ret.result.list, repeated)
            /\ repeated = {} => ret.result.kind # "alias_duplicates"

\* C7, amended: whenever an alias value is listed more than once in the
\* section, and no alias of the section has whitespace inside (the check
\* that runs while the aliases are gathered), building the alias list ends
\* with the 'contains duplicates' error, whose list holds every duplicated
\* value once and nothing else; and when no value is repeated, it does not
\* end with that error.
C7_DuplicatedAliasesAreRefused ==
    BuiltAliases =>
        LET listed   == AllListedAliases
            repeated == MoreThanOnce(listed)
        IN  /\ (repeated # {} /\ WithWhitespace(listed) = <<>>) =>
                  /\ ret.result.status = "exit"
                  /\ ret.result.kind = "alias_duplicates"
                  /\ ListsExactlyOnce(ret.result.list, repeated)
            /\ repeated = {} => ret.result.kind # "alias_duplicates"

\* C7, its case: the constructor ended with the 'contains duplicates' error
\* for an alias listed under two entries
C7_Witness ==
    /\ ret.op = "__init__"
    /\ ret.result.kind = "alias_duplicates"
    /\ \E i, j \in DOMAIN TheSection :
          /\ i # j
          /\ SeqToSet(ListedAliases(i)) \cap SeqToSet(ListedAliases(j)) # {}

\* the entries under which the configuration lists the alias
ListedUnder(a) ==
    {i \in DOMAIN TheSection :
        InList(a, GetValuesForSectionKey(TheSection[i].value).list)}

\* C8: alias round trip.  For every alias a that get_aliases returned for
\* the section, get_env_name_for_alias(a) returns the EntryName of the one
\* entry under which the configuration lists a, wherever that entry stands
\* in the section and whether or not a is a substring of an alias of
\* another entry.
C8_AliasRoundTrip ==
    (ret.op = "get_env_name_for_alias" /\ InList(ret.arg, aliases)) =>
        /\ Cardinality(ListedUnder(ret.arg)) = 1
        /\ \A i \in ListedUnder(ret.arg) :
              ret.result = Returned(TheSection[i].key, <<>>)

\* C8, its case: the alias is looked up, it is a substring of an alias of
\* another entry, and that entry comes before the one that owns it
C8_Witness ==
    /\ ret.op = "get_env_name_for_alias"
    /\ InList(ret.arg, aliases)
    /\ ret.result.status = "return"
    /\ \E i, j \in DOMAIN TheSection :
          /\ i < j
          /\ j \in ListedUnder(ret.arg)
          /\ \E b \in SeqToSet(ListedAliases(i)) :
                b # ret.arg /\ IsSubstr(ret.arg, b)

\* whether the list of strings is in strictly increasing alphabetical order
StrictlyIncreasing(lst) ==
    \A i, j \in DOMAIN lst : i < j => StrLess(lst[i], lst[j])

\* C9: the not-found diagnostic.  Whenever the body of qualified_env_name
\* has run and the normalized candidate contains no EntryName and no alias
\* of the section, the call ends with the 'Unable to find alias or
\* environment name' error; its listing holds every EntryName of the
\* section once, in alphabetical order, and each is followed by the aliases
\* listed under that entry, each once, in alphabetical order.
C9_NotFoundDiagnostic ==
    (BodyRan /\ NamesInCandidate = {} /\ AliasesInCandidate = {}) =>
        /\ ret.result.status = "exit"
        /\ ret.result.kind = "not_found"
        /\ LET shown == ret.result.listing
               names == [i \in DOMAIN shown |-> shown[i].name]
           IN  /\ SeqToSet(names) = EntryNames
               /\ StrictlyIncreasing(names)
               /\ \A i \in DOMAIN shown :
                     /\ StrictlyIncreasing(shown[i].aliases)
                     /\ \A k \in DOMAIN TheSection :
                           TheSection[k].key = shown[i].name =>
                              SeqToSet(shown[i].aliases) =
                                  SeqToSet(ListedAliases(k))

\* C9, its case: nothing matches for a section of two entries that the
\* file has in other than alphabetical order, one of them with two aliases
\* listed in other than alphabetical order
C9_Witness ==
    /\ BodyRan
    /\ ret.result.kind = "not_found"
    /\ Len(TheSection) = 2
    /\ StrLess(TheSection[2].key, TheSection[1].key)
    /\ \E i \in DOMAIN TheSection :
          /\ Len(ListedAliases(i)) = 2
          /\ StrLess(ListedAliases(i)[2], ListedAliases(i)[1])

\* the errors of the alias rules that the section violates
ViolatedAliasRules ==
    LET listed == AllListedAliases
    IN  {k \in {"alias_whitespace", "alias_duplicates",
                "alias_matches_env_name"} :
            \/ k = "alias_whitespace" /\ WithWhitespace(listed) # <<>>
            \/ k = "alias_duplicates" /\ MoreThanOnce(listed) # {}
            \/ k = "alias_matches_env_name" /\ EqualToEntryName(listed) # <<>>}

\* C10: alias-integrity failures happen at construction.  Whenever the
\* section of the system violates alias uniqueness, alias/name
\* non-collision or the no-whitespace rule, every instance constructed for
\* it, whatever the candidate, ends its construction with the error of one
\* of the rules violated, and no matching or validation step is reached.
C10_AliasFailuresAtConstruction ==
    pc # "new" =>
        LET violated == ViolatedAliasRules
        IN  violated # {} =>
               /\ pc = "dead"
               /\ ret.op = "__init__"
               /\ ret.result.status = "exit"
               /\ ret.result.kind \in violated
               /\ steps = <<>>
               /\ matched_env_name = None
               /\ matched_alias = None
               /\ qualified_env_name = None

\* C10, its case: a second instance, for another candidate, ended its
\* construction as the first did, on a section that violates two rules
C10_Witness ==
    /\ pc = "dead"
    /\ earlier # None
    /\ earlier[1].result.status = "exit"
    /\ Cardinality(ViolatedAliasRules) >= 2

\* the listing shows every EntryName of the section once, in alphabetical
\* order, each with the aliases listed under it, in alphabetical order
ShowsEverySupportedEnvironment(shown) ==
    LET names == [i \in DOMAIN shown |-> shown[i].name]
    IN  /\ SeqToSet(names) = EntryNames
        /\ StrictlyIncreasing(names)
        /\ \A i \in DOMAIN shown :
              /\ StrictlyIncreasing(shown[i].aliases)
              /\ \A k \in DOMAIN TheSection :
                    TheSection[k].key = shown[i].name =>
                       SeqToSet(shown[i].aliases) = SeqToSet(ListedAliases(k))

\* where in the candidate's components a package of the matched
\* environment name is followed by a version
StatedAt(toks, env) ==
    {i \in 1..(Len(toks) - 1) :
        /\ InList(toks[i], Tokens(env))
        /\ ~IsVersion(toks[i])
        /\ IsVersion(toks[i + 1])}

\* the versioned component stated at position i
StatedComponent(toks, i) == toks[i] \o <<"-">> \o toks[i + 1]

\* the position of the first occurrence of s in t (s occurs in t)
FirstPos(s, t) ==
    CHOOSE p \in 1..Len(t) :
        /\ p + Len(s) - 1 <= Len(t)
        /\ SubSeq(t, p, p + Len(s) - 1) = s
        /\ \A q \in 1..(p - 1) :
              q + Len(s) - 1 > Len(t) \/ SubSeq(t, q, q + Len(s) - 1) # s

\* C11: the unsupported-version diagnostic.  Whenever the body of
\* qualified_env_name has matched an EntryName and the versioned components
\* that the candidate states are found in no EntryName of the system
\* together, the call ends with the unsupported-version error; the error
\* names every one of these components, once, in the order of the
\* candidate; it is worded "'X' is not supported" for one, "'X' and 'Y'
\* are not supported together" for two and "'X', 'Y', ... are not supported
\* together" for three or more; and it shows every EntryName of the system
\* with its aliases.
C11_UnsupportedVersionDiagnostic ==
    (BodyRan /\ matched_env_name # None) =>
        LET toks   == Tokens(Candidate)
            at     == StatedAt(toks, matched_env_name[1])
            stated == {StatedComponent(toks, i) : i \in at}
            named  == ret.result.list
        IN  (/\ at # {}
             /\ \A k \in EntryNames : \E c \in stated : ~IsSubstr(c, k)) =>
               /\ ret.result.status = "exit"
               /\ ret.result.kind = "unsupported_version"
               /\ SeqToSet(named) = stated
               /\ Len(named) = Cardinality(at)
               /\ \A i, j \in DOMAIN named :
                     i < j => FirstPos(named[i], Candidate)
                                 < FirstPos(named[j], Candidate)
               /\ Len(named) = 1 =>
                     ret.result.phrase = "'X' is not supported"
               /\ Len(named) = 2 =>
                     ret.result.phrase =
                         "'X' and 'Y' are not supported together"
               /\ Len(named) >= 3 =>
                     ret.result.phrase =
                         "'X', 'Y', ... are not supported together"
               /\ ShowsEverySupportedEnvironment(ret.result.listing)

\* C11, its case: three versions of the candidate are not supported, and
\* the error names the three and shows an environment with its alias
C11_Witness ==
    /\ BodyRan
    /\ ret.result.kind = "unsupported_version"
    /\ Len(ret.result.list) = 3
    /\ \E i \in DOMAIN ret.result.listing :
          ret.result.listing[i].aliases # <<>>

\* the versioned components that the candidate states for the matched
\* environment name are found in no EntryName of the system together
VersionsRefused ==
    LET toks   == Tokens(Candidate)
        at     == StatedAt(toks, matched_env_name[1])
        stated == {StatedComponent(toks, i) : i \in at}
    IN  /\ at # {}
        /\ \A k \in EntryNames : \E c \in stated : ~IsSubstr(c, k)

\* the node types that the candidate specifies, in its order
NodeTypesAsked ==
    SelectSeq(Tokens(Candidate), LAMBDA t : t \in {<<"serial">>, <<"openmp">>})

\* the environments of the system are CUDA based
CudaBased == \A k \in EntryNames : InList(<<"cuda">>, Tokens(k))

RawListedAliases(i) ==
    LET kept == SelectSeq(FindAll(TheSection[i].value), LAMBDA c : c # <<>>)
        text == [j \in DOMAIN kept |-> Strip(kept[j])]
    IN  SelectSeq(text, LAMBDA t : t # <<>>)

\* C13, as claimed: the no-whitespace rule.  Whenever an alias of the
\* section, as the file writes it, has whitespace inside, building the
\* alias list ends with the whitespace error, which lists every such alias
\* of the section, and which is worded 'The following alias contains
\* whitespace:' for one and 'The following aliases contain whitespace:' for
\* more than one.
C13_AsClaimed ==
    BuiltAliases =>
        LET offending ==
                WithWhitespace(Flatten([i \in DOMAIN TheSection |->
                                           RawListedAliases(i)]))
        IN  offending # <<>> =>
               /\ ret.result.status = "exit"
               /\ ret.result.kind = "alias_whitespace"
               /\ ret.result.list = offending
               /\ Len(offending) = 1 =>
                     ret.result.phrase =
                         "The following alias contains whitespace:"
               /\ Len(offending) > 1 =>
                     ret.result.phrase =
                         "The following aliases contain whitespace:"

\* s is a prefix of t
IsPrefix(s, t) == Len(s) <= Len(t) /\ SubSeq(t, 1, Len(s)) = s

\* the stages of a run that matches an EntryName, and of one that matches
\* an alias, in order
StagesByName ==
    <<"match_env_names", "assert_versions", "assert_node_type", "compose">>

StagesByAlias ==
    <<"match_env_names", "match_aliases", "get_env_name_for_alias",
      "assert_versions", "assert_node_type", "compose">>

\* the node types that the candidate specifies and the system or the
\* matched EntryName does not offer
NodeTypesRefused ==
    \E i \in DOMAIN NodeTypesAsked :
        CudaBased \/ ~InList(NodeTypesAsked[i], Tokens(matched_env_name[1]))

\* C14: the order of the stages.  In every run of the body of
\* qualified_env_name the stages run in the order match (names, then
\* aliases), check of the versions, check of the node type, compose, up to
\* the stage that fails; a candidate that violates both checks fails with
\* the unsupported-version error, before the check of the node type; and a
\* qualified name is composed and returned only after both checks have
\* passed.
C14_StageOrdering ==
    BodyRan =>
        /\ IsPrefix(steps, StagesByName) \/ IsPrefix(steps, StagesByAlias)
        /\ (matched_env_name # None /\ VersionsRefused /\ NodeTypesRefused) =>
              /\ ret.result.kind = "unsupported_version"
              /\ ~InList("assert_node_type", steps)
        /\ InList("compose", steps) <=> ret.result.status = "return"
        /\ ret.result.status = "return" =>
              /\ matched_env_name # None
              /\ ~VersionsRefused
              /\ ~NodeTypesRefused
              /\ ret.result.val =
                     system_name \o <<"-">> \o matched_env_name[1]

\* C14, its case: the candidate violates both checks, and the run ends at
\* the check of the versions
C14_Witness ==
    /\ BodyRan
    /\ matched_env_name # None
    /\ VersionsRefused
    /\ NodeTypesRefused
    /\ ret.result.kind = "unsupported_version"

\* C15, as claimed: a single read of the configuration.  Whatever the
\* operations on one instance, the instance loads the configuration file at
\* most once.
C15_AsClaimed == config_reads <= 1

\* the EntryNames of the section with underscores replaced by hyphens
NormalizedEntryNames == {ReplaceUnderscores(k) : k \in EntryNames}

\* C16, as claimed: EntryNames are normalized.  An EntryName is matched
\* against the candidate, compared with the aliases in the collision check
\* and composed into the qualified name with its underscores replaced by
\* hyphens: a run of the body of qualified_env_name for a candidate that
\* contains a normalized EntryName matches by name; an alias list that is
\* returned holds no normalized EntryName; and a qualified name that is
\* returned is the system name, a hyphen and a normalized EntryName.
C16_AsClaimed ==
    /\ (BodyRan /\ \E k \in NormalizedEntryNames : IsSubstr(k, Candidate)) =>
          /\ matched_env_name # None
          /\ matched_alias = None
    /\ (BuiltAliases /\ ret.result.status = "return") =>
          SeqToSet(ret.result.list) \cap NormalizedEntryNames = {}
    /\ (ret.op = "qualified_env_name" /\ ret.result.status = "return") =>
          \E k \in NormalizedEntryNames :
              ret.result.val = system_name \o <<"-">> \o k

\* the message is the one of get_env_name_for_alias for an alias that no
\* entry of the section lists
UnableToFindAlias(r) == r.status = "exit" /\ r.kind = "alias_not_in_aliases"

NamedInBuildName ==
    {n \in SeqToSet(Sections(supported_systems_data)) \ {Default} :
        IsSubstr(n, args.build_name)}

\* C18: get_sys_name_from_build_name.  Over the non-DEFAULT section names
\* of supported-systems.ini: if exactly one is a substring of the build
\* name, it is returned; if none is, None is returned; if more than one
\* is, the call ends with the 'Cannot specify more than one system name in
\* the build name' error, which lists all the matched system names.
C18_SysNameFromBuildName ==
    load_env_ret.op = "get_sys_name_from_build_name" =>
        LET named == NamedInBuildName
            r == load_env_ret.result
        IN  /\ Cardinality(named) = 1 =>
                  \A n \in named : r = Returned(Some(n), <<>>)
            /\ named = {} => r = Returned(None, <<>>)
            /\ Cardinality(named) > 1 =>
                  /\ r.status = "exit"
                  /\ r.kind = "more_than_one_system_name"
                  /\ SeqToSet(r.list) = named
                  /\ Len(r.list) = Cardinality(named)

\* C18, its case: the call ended with the error for a build name that
\* holds one system name inside another, with a DEFAULT section aside
C18_Witness ==
    /\ load_env_ret.op = "get_sys_name_from_build_name"
    /\ load_env_ret.result.status = "exit"
    /\ NamedInBuildName = {System1, System10}

\* the system the hostname is matched to, None if there is none
MatchedFromHostname ==
    GetSysNameFromHostname(supported_systems_data, hostname)

\* the last call was determine_system
DeterminedSystem == load_env_ret.op = "determine_system"

\* C19: determine_system selects the system.  When it returns normally,
\* system_name is the system named in the build name if there is one, and
\* the system matched from the hostname if the build name names none; when
\* neither the hostname nor the build name yields a system name, it ends
\* with the 'Unable to find valid system name' error.
C19_DetermineSystemSelects ==
    DeterminedSystem =>
        LET named == NamedInBuildName
            r == load_env_ret.result
        IN  /\ (r.status = "return" /\ Cardinality(named) = 1) =>
                  \A n \in named : load_env_system_name = Some(n)
            /\ (r.status = "return" /\ named = {}) =>
                  /\ load_env_system_name # None
                  /\ load_env_system_name = MatchedFromHostname
            /\ (named = {} /\ MatchedFromHostname = None) =>
                  /\ r.status = "exit"
                  /\ r.kind = "no_valid_system_name"
                  /\ load_env_system_name = None

\* C19, its case: the hostname is matched to one system, the build name
\* names another, and the call returned with the one of the build name
C19_Witness ==
    /\ DeterminedSystem
    /\ load_env_ret.before = None
    /\ load_env_ret.result.status = "return"
    /\ MatchedFromHostname # None
    /\ \E n \in NamedInBuildName :
          /\ MatchedFromHostname # Some(n)
          /\ load_env_system_name = Some(n)

\* C20, as claimed: the force gate of determine_system.  When the
\* hostname is matched to a system and the build name names a different
\* system, determine_system ends with the 'add the --force flag' error if
\* force is False, and returns with system_name equal to the system of the
\* build name if force is True; when the two agree, or the hostname is
\* matched to nothing, the call does not end with that error.
C20_AsClaimed ==
    (DeterminedSystem /\ Cardinality(NamedInBuildName) = 1) =>
        \A n \in NamedInBuildName :
            LET r == load_env_ret.result
                differ == /\ MatchedFromHostname # None
                          /\ MatchedFromHostname # Some(n)
            IN  /\ (differ /\ ~args.force) =>
                      r.status = "exit" /\ r.kind = "add_force_flag"
                /\ (differ /\ args.force) =>
                      /\ r.status = "return"
                      /\ load_env_system_name = Some(n)
                /\ ~differ =>
                      /\ r.status = "return"
                      /\ load_env_system_name = Some(n)

\* the last call selected the system: determine_system, called directly or
\* through parsed_env_name
SelectedSystem == load_env_ret.op \in {"determine_system", "parsed_env_name"}

\* C21, as claimed: a mismatch of hostname and build name is never
\* accepted without --force, over any sequence of calls.  On an instance
\* with force False, whenever determine_system, called directly or through
\* parsed_env_name, returns normally and both the hostname and the build
\* name yield a system name, system_name is the system of the hostname;
\* also when an earlier call on the instance ended with the mismatch error.
C21_AsClaimed ==
    ( /\ SelectedSystem
      /\ ~args.force
      /\ load_env_ret.result.status = "return"
      /\ MatchedFromHostname # None
      /\ Cardinality(NamedInBuildName) = 1 ) =>
        load_env_system_name = MatchedFromHostname

\* the errors a read of qualified_env_name can end with
ResolutionErrors ==
    {"not_found", "unsupported_version", "node_type_not_applicable_to_cuda",
     "unsupported_node_type", "alias_not_in_aliases"}

\* C22: a failed resolution caches nothing.  When a read of
\* qualified_env_name ends with a not-found, unsupported-version,
\* unsupported-node-type or internal-consistency error, no result is stored
\* on the instance; and a later read on the same instance, other calls in
\* between or not, runs the resolution again and ends with the same error
\* rather than returning a value.
C22_FailureCachesNothing ==
    /\ (ret.op = "qualified_env_name" /\ ret.result.status = "exit") =>
          /\ ret.result.kind \in ResolutionErrors
          /\ qualified_env_name = None
    /\ earlier_failure # None =>
          /\ qualified_env_name = None
          /\ ret.op = "qualified_env_name" =>
                /\ steps # <<>>
                /\ ret.result.status = "exit"
                /\ SameOutcome(ret.result, earlier_failure[1])

\* C22, its case: a read failed, and a later read on the instance ran the
\* body again and failed with a message that shows the aliases
C22_Witness ==
    /\ ret.op = "qualified_env_name"
    /\ earlier_failure # None
    /\ config_reads = MaxReads
    /\ \E i \in DOMAIN ret.result.listing :
          ret.result.listing[i].aliases # <<>>

\* the entries of the section with the key e that list an alias that is a
\* substring of the normalized candidate
OwnsAliasInCandidate(e) ==
    \E i \in DOMAIN TheSection :
        /\ TheSection[i].key = e
        /\ \E a \in SeqToSet(ListedAliases(i)) : IsSubstr(a, Candidate)

\* C23: result soundness.  Every value that qualified_env_name returns is
\* the system name, a hyphen and an EntryName e, a key of the section of
\* that system; and either e is a substring of the normalized candidate, or
\* no EntryName is a substring of it and an alias listed under e is.  No
\* entry of another section is returned.
C23_ResultSoundness ==
    (ret.op = "qualified_env_name" /\ ret.result.status = "return") =>
        \E e \in EntryNames :
            /\ ret.result.val = system_name_arg \o <<"-">> \o e
            /\ \/ IsSubstr(e, Candidate)
               \/ /\ \A k \in EntryNames : ~IsSubstr(k, Candidate)
                  /\ OwnsAliasInCandidate(e)

\* C23, its case: the value is returned through an alias of the second of
\* two entries, and the key returned is a key of no other section
C23_Witness ==
    /\ ret.op = "qualified_env_name"
    /\ ret.result.status = "return"
    /\ matched_alias # None
    /\ Len(TheSection) = 2
    /\ ret.result.val = system_name_arg \o <<"-">> \o TheSection[2].key
    /\ \A y \in DOMAIN supported_envs :
          y # system_name_arg =>
              ~InList(TheSection[2].key, Keys(supported_envs[y]))

====
